---- MODULE Spec2Model ----
(***************************************************************************)
(* Upload-and-processing pipeline of the tubely server: the video upload   *)
(* handler (ffprobe inspection, ffmpeg fast-start remux, S3 put, metadata  *)
(* update) and the two thumbnail upload handlers (assets directory on disk *)
(* and the videoThumbnails map), with the auth helpers they call.          *)
(*                                                                         *)
(* Strings are sequences of symbols: "video/mp4" is <<"video","/","mp4">>, *)
(* so that splitting, joining and formatting are computed, not assumed.    *)
(* A nil string pointer is the empty sequence Nil.                         *)
(***************************************************************************)
EXTENDS Integers, Sequences, FiniteSets, TLC

\* ------------------------------------------------------------------ bounds
\* Number of requests the server accepts one after the other.
MaxStarts == 2
\* Widths and heights 0..MaxDim of the aspect-ratio specification.
MaxDim == 20

\* ------------------------------------------------------- program constants
\* const uploadLimit = 1 << 30
uploadLimit == 1073741824
\* const maxMemory = 10 << 20
maxMemory == 10485760

\* http status codes used by the handlers
StatusOK == 200
StatusBadRequest == 400
StatusUnauthorized == 401
StatusInternalServerError == 500

Nil == <<>>
NoUser == "nobody"

\* ------------------------------------------------------------- the world
\* Worker slots: the server runs one goroutine per in-flight request.
Reqs == {"r1", "r2"}
Users == {"u1", "u2"}
\* The metadata store holds one video, v1, created by u1; v2 is a
\* well-formed identifier of no record.
VideoIDs == {"v1", "v2"}
\* Path parameters: "V1" is the upper-case spelling of v1, "zz" no uuid.
IDStrings == {"v1", "V1", "v2", "zz"}
Handlers == {"video", "thumbDisk", "thumbMap"}

\* cfg fields
s3CfDistribution == "cf.example"
port == "8091"
assetsRoot == "assets"

\* ------------------------------------------------------------------ tokens
\* A JWT as what jwt.ParseWithClaims and the claims getters see of it.
Token(sig, exp, iss, sub) == [sig |-> sig, expired |-> exp, iss |-> iss, sub |-> sub]
TokenTypeAccess == "tubely-access"
TokU1 == Token("good", FALSE, TokenTypeAccess, "u1")
TokU2 == Token("good", FALSE, TokenTypeAccess, "u2")
TokBadSig == Token("bad", FALSE, TokenTypeAccess, "u1")
TokExpired == Token("good", TRUE, TokenTypeAccess, "u1")
TokWrongIssuer == Token("good", FALSE, "tubely-refresh", "u1")
TokBadSubject == Token("good", FALSE, TokenTypeAccess, "not-a-uuid")
Tokens == {TokU1, TokU2, TokBadSig, TokExpired, TokWrongIssuer, TokBadSubject}

\* An Authorization header value as its fields between single spaces
\* (strings.Split(authHeader, " ")); <<>> is the absent or empty header.
\* "Bearer <token of u2> x" carries a further field after the token.
Headers ==
    {<<>>, <<"Bearer">>, <<"ApiKey", TokU1>>, <<"Bearer", TokU2, "x">>}
    \cup {<<"Bearer", t>> : t \in Tokens}

\* uuid.Parse: the identifier, or an error
uuidOK(s) == s \in {"v1", "V1", "v2", "u1", "u2"}
uuidParse(s) == IF s = "V1" THEN "v1" ELSE s

Err(e) == [ok |-> FALSE, err |-> e]
Ok(v) == [ok |-> TRUE, val |-> v]

\* auth.GetBearerToken
GetBearerToken(authHeader) ==
    IF authHeader = <<>> THEN Err("no auth header included in request")
    ELSE IF Len(authHeader) < 2 \/ authHeader[1] # "Bearer"
         THEN Err("malformed authorization header")
    ELSE Ok(authHeader[2])

\* auth.ValidateJWT
ValidateJWT_NoIssuerCheck(tok) ==
    IF tok.sig # "good" \/ tok.expired THEN Err("parse")
    ELSE IF ~uuidOK(tok.sub) THEN Err("invalid user ID")
    ELSE Ok(uuidParse(tok.sub))

ValidateJWT(tok) ==
    IF tok.sig # "good" \/ tok.expired THEN Err("parse")
    ELSE IF tok.iss # TokenTypeAccess THEN Err("invalid issuer")
    ELSE IF ~uuidOK(tok.sub) THEN Err("invalid user ID")
    ELSE Ok(uuidParse(tok.sub))

\* ------------------------------------------------------------- media types
\* Content-Type values of the uploaded file part.
VideoMP4 == <<"video", "/", "mp4">>
ImagePNG == <<"image", "/", "png">>
VideoCTypes == {<<>>, VideoMP4, ImagePNG}
ThumbCTypes == {<<>>, ImagePNG}

ToLower(sym) ==
    CASE sym = "VIDEO" -> "video"
      [] sym = "MP4" -> "mp4"
      [] OTHER -> sym

\* strings.Cut(v, ";"): the part before the first ";"
RECURSIVE BeforeSemi(_)
BeforeSemi(v) ==
    IF v = <<>> \/ Head(v) = ";" THEN <<>>
    ELSE <<Head(v)>> \o BeforeSemi(Tail(v))

\* mime.ParseMediaType, with the parameters dropped: lower-cased
\* "type" or "type/subtype", an error for anything else.
ParseMediaType(v) ==
    LET base == BeforeSemi(v)
        mt == [i \in 1..Len(base) |-> ToLower(base[i])]
    IN  IF mt = <<>> THEN Err("mime: no media type")
        ELSE IF Len(mt) = 1 /\ mt[1] # "/" THEN Ok(mt)
        ELSE IF Len(mt) = 3 /\ mt[1] # "/" /\ mt[2] = "/" /\ mt[3] # "/" THEN Ok(mt)
        ELSE Err("mime: expected token after slash")

\* strings.Split(s, "/"): the pieces between the separators
RECURSIVE Split(_)
Split(s) ==
    IF s = <<>> THEN << <<>> >>
    ELSE IF Head(s) = "/" THEN << <<>> >> \o Split(Tail(s))
    ELSE LET rest == Split(Tail(s))
         IN  << <<Head(s)>> \o Head(rest) >> \o Tail(rest)

\* mediaTypeToExt
mediaTypeToExt_FirstPart(mediaType) ==
    LET parts == Split(mediaType)
    IN  IF Len(parts) # 2 THEN <<".bin">>
        ELSE <<".">> \o parts[1]

mediaTypeToExt_AtLeastTwo(mediaType) ==
    LET parts == Split(mediaType)
    IN  IF Len(parts) < 2 THEN <<".bin">>
        ELSE <<".">> \o parts[2]

mediaTypeToExt(mediaType) ==
    LET parts == Split(mediaType)
    IN  IF Len(parts) # 2 THEN <<".bin">>
        ELSE <<".">> \o parts[2]

\* getAssetPath(mediaType), random form: base64 of the 32 random bytes
\* (one symbol, id) followed by the extension
getAssetPathRandom(id, mediaType) == <<id>> \o mediaTypeToExt(mediaType)

\* getAssetPath(videoID, mediaType), deterministic form
getAssetPath_NoID(videoID, mediaType) == <<"thumbnail">> \o mediaTypeToExt(mediaType)

getAssetPath(videoID, mediaType) == <<videoID>> \o mediaTypeToExt(mediaType)

\* path.Join(directory, key)
pathJoin(directory, key) ==
    IF directory = <<>> THEN key ELSE directory \o <<"/">> \o key

\* filepath.Join(cfg.assetsRoot, assetPath)
getAssetDiskPath(assetPath) == <<assetsRoot, "/">> \o assetPath

\* fmt.Sprintf("http://localhost:%s/assets/%s", cfg.port, assetPath)
getAssetURL(assetPath) == <<"http://localhost:", port, "/assets/">> \o assetPath

\* fmt.Sprintf("http://localhost:%s/api/thumbnails/%s", cfg.port, videoID)
thumbnailURL(videoID) == <<"http://localhost:", port, "/api/thumbnails/", videoID>>

\* fmt.Sprintf("https://%s/%s", cfg.s3CfDistribution, key)
videoURL_FromFilename(key) == <<"https://", s3CfDistribution, "/", key[Len(key) - 2]>>

videoURL(key) == <<"https://", s3CfDistribution, "/">> \o key

\* ---------------------------------------------------------- aspect ratio
\* The tail of getVideoAspectRatio: Go's int division truncates.
getVideoAspectRatio_Swapped(width, height) ==
    IF height = (16 * width) \div 9 THEN "16:9"
    ELSE IF width = (16 * height) \div 9 THEN "9:16"
    ELSE "other"

getVideoAspectRatio_Strict(width, height) ==
    IF width > (16 * height) \div 9 THEN "16:9"
    ELSE IF height = (16 * width) \div 9 THEN "9:16"
    ELSE "other"

getVideoAspectRatio(width, height) ==
    IF width = (16 * height) \div 9 THEN "16:9"
    ELSE IF height = (16 * width) \div 9 THEN "9:16"
    ELSE "other"

\* The switch of handlerUploadVideo on the aspect ratio.
directoryOf_NoDefault(aspectRatio) ==
    CASE aspectRatio = "16:9" -> <<"landscape">>
      [] aspectRatio = "9:16" -> <<"portrait">>
      [] OTHER -> <<>>

directoryOf(aspectRatio) ==
    CASE aspectRatio = "16:9" -> <<"landscape">>
      [] aspectRatio = "9:16" -> <<"portrait">>
      [] OTHER -> <<"other">>

\* ------------------------------------------------------------------ state
VARIABLES
    rq,               \* per worker slot: the locals of the handler run in it
    started,          \* requests accepted so far
    db,               \* metadata store: video id -> database.Video
    s3,               \* object store: key -> object
    disk,             \* local disk: path -> file content
    videoThumbnails,  \* the global map of the in-memory thumbnail handler
    thumbVariant,     \* which handlerUploadThumbnail the build holds
    width, height, aspectRatio,  \* the aspect-ratio specification's state
    extArg, extRes,   \* mediaTypeToExt's argument and result
    keyArgs, keyRes   \* getAssetPath's arguments, call by call, and results

vars == <<rq, started, db, s3, disk, videoThumbnails, thumbVariant, width, height, aspectRatio,
          extArg, extRes, keyArgs, keyRes>>
ratioVars == <<width, height, aspectRatio>>
assetVars == <<extArg, extRes, keyArgs, keyRes>>
pureVars == <<ratioVars, assetVars>>
\* What no handler step changes.
fixedVars == <<thumbVariant, pureVars>>
serverVars == <<rq, started, db, s3, disk, videoThumbnails, thumbVariant>>

\* Sizes of the request body (the file part; the framing is not counted).
VideoBodySizes == {uploadLimit, uploadLimit + 1}
\* (a thumbnail of one byte, and one beyond maxMemory and beyond uploadLimit)
ThumbBodySizes == {1, uploadLimit + 1}
\* The 32 random bytes of a key, base64-encoded.
RandIDs == {"rA", "rB"}
\* width and height of a stream ffprobe reports; a stream without them (an
\* audio stream) unmarshals to 0 and 0
Geometries == {<<1920, 1080>>, <<1080, 1920>>, <<1000, 1000>>, <<0, 0>>}
\* The streams of a probed file, in the order ffprobe prints them: one video
\* stream, an audio stream before the video stream, or two video streams.
ProbeOutputs ==
    {<<g>> : g \in Geometries \ {<<0, 0>>}}
        \cup {<< <<0, 0>>, <<1920, 1080>> >>, << <<1080, 1920>>, <<1920, 1080>> >>}
ProbeFailures == {"exit", "json", "nostreams"}
FFmpegOutcomes == {"exit", "exitPartial", "nofile", "empty", "ok"}

NoVideo == [UserID |-> NoUser, VideoURL |-> Nil, ThumbnailURL |-> Nil]
NoGeom == <<>>

\* A file's content: the run whose upload it holds, and its size in bytes.
Content(run, size) == [run |-> run, size |-> size]
\* The output of "ffmpeg -i <input> -movflags faststart -codec copy -f mp4":
\* the streams of the input, copied, with the index moved to the front.
FastStartOf(content) == [run |-> content.run, size |-> content.size, faststart |-> TRUE]

IdleReq ==
    [pc |-> "idle", handler |-> "video", run |-> 0, header |-> <<>>,
     videoID |-> "", userID |-> NoUser, video |-> NoVideo,
     part |-> FALSE, size |-> 0, ctype |-> <<>>, mediaType |-> <<>>,
     tempFile |-> Nil, streams |-> <<>>, geom |-> NoGeom, directory |-> <<>>, key |-> <<>>,
     processedFilePath |-> Nil, assetPath |-> <<>>, defers |-> <<>>, unwound |-> <<>>,
     status |-> 0, msg |-> "", err |-> "",
     trail |-> <<>>,
     wroteLocal |-> FALSE, wroteStore |-> FALSE,
     cancelled |-> FALSE, ffmpeg |-> "",
     saved |-> [files |-> <<>>, thumbs |-> <<>>]]

Init ==
    /\ rq = [r \in Reqs |-> IdleReq]
    /\ started = 0
    /\ db = [v \in {"v1"} |-> [UserID |-> "u1", VideoURL |-> Nil, ThumbnailURL |-> Nil]]
    /\ s3 = <<>>
    /\ disk = <<>>
    /\ videoThumbnails = <<>>
    /\ thumbVariant \in Handlers \ {"video"}
    /\ width = 0 /\ height = 0 /\ aspectRatio = ""
    /\ extArg = <<>> /\ extRes = <<>> /\ keyArgs = <<>> /\ keyRes = <<>>

\* ------------------------------------------------------- files and defers
Remove(d, p) == [q \in DOMAIN d \ {p} |-> d[q]]
Store(d, p, c) == [q \in DOMAIN d \cup {p} |-> IF q = p THEN c ELSE d[q]]

\* The temporary file of a run, os.CreateTemp("", "tubely-upload.mp4"):
\* the pattern followed by a string no existing file has.
tempName(run) == <<"/tmp/tubely-upload.mp4", run>>
\* fmt.Sprintf("%s.processing", inputFilePath)
processingPath(inputFilePath) == inputFilePath \o <<".processing">>
\* The file mime/multipart keeps of a part beyond its memory limit.
multipartName(run) == <<"/tmp/multipart-", run>>

\* The deferred calls of a handler, run last-in first-out at its return.
\* A deferred Close changes nothing on disk; os.Remove unlinks the path.
RECURSIVE RunDefers(_, _)
RunDefers(d, defers) ==
    IF defers = <<>> THEN d
    ELSE LET last == defers[Len(defers)]
             rest == SubSeq(defers, 1, Len(defers) - 1)
         IN  RunDefers(IF last.op = "remove" THEN Remove(d, last.path) ELSE d, rest)

\* After the handler returns the server removes the request's multipart
\* files (net/http: MultipartForm.RemoveAll).
AfterReturn(d, rec) == Remove(RunDefers(d, rec.defers), multipartName(rec.run))

\* trail: the calls the run has made so far, in order.
Called(rec, call) == [rec EXCEPT !.trail = Append(@, call)]
Calls(rec, call) == Cardinality({i \in 1..Len(rec.trail) : rec.trail[i] = call})

Defer(defers, op, path) == Append(defers, [op |-> op, path |-> path])
\* The deferred calls in the order the return executes them: last deferred,
\* first run.
Unwind(defers) == [i \in 1..Len(defers) |-> defers[Len(defers) + 1 - i]]

\* respondWithError / respondWithJSON followed by return
Respond(rec, status, msg) ==
    [rec EXCEPT !.pc = "done", !.status = status, !.msg = msg, !.defers = <<>>,
                !.unwound = Unwind(rec.defers)]

\* One handler step of slot r that ends the run with a response.
Return(r, rec, status, msg, d) ==
    /\ rq' = [rq EXCEPT ![r] = Respond(rec, status, msg)]
    /\ disk' = AfterReturn(d, rec)

\* One handler step of slot r that goes on to the step at pc.
Goto(r, rec, pc) == rq' = [rq EXCEPT ![r] = [rec EXCEPT !.pc = pc]]

\* What the asset stores hold under a video's id: the files
\* <assetsRoot>/<id><ext> on the disk d, and the entry of the map m.
AssetsOf(d, m, id) ==
    LET paths == {q \in DOMAIN d : Len(q) >= 3 /\ q[1] = assetsRoot /\ q[3] = id}
    IN  [files |-> [q \in paths |-> d[q]],
         thumbs |-> [v \in DOMAIN m \cap {id} |-> m[v]]]

\* ------------------------------------------------- collaborators (external)
\* cfg.db.GetVideo: the record of id, or an error when there is none or
\* the store fails.
GetVideoResults(id) ==
    {Err("couldn't get video")} \cup (IF id \in DOMAIN db THEN {Ok(db[id])} ELSE {})

\* cfg.db.UpdateVideo: writes the row of the record as given, or fails and
\* writes nothing.
UpdateVideoResults(id, video) ==
    {[ok |-> FALSE, db |-> db], [ok |-> TRUE, db |-> [db EXCEPT ![id] = video]]}

\* cfg.s3Client.PutObject: stores the object under key, or fails and
\* stores nothing.
PutObjectResults_OctetStream(key, body, contentType) ==
    {[ok |-> FALSE, s3 |-> s3],
     [ok |-> TRUE, s3 |-> Store(s3, key, [body |-> body,
                                          contentType |-> <<"application", "/", "octet-stream">>])]}

PutObjectResults(key, body, contentType) ==
    {[ok |-> FALSE, s3 |-> s3],
     [ok |-> TRUE, s3 |-> Store(s3, key, [body |-> body, contentType |-> contentType])]}

\* ------------------------------------------------ steps common to handlers
\* The server accepts a request in the first free slot; the handler
\* parses the videoID path parameter (uuid.Parse).
\* saved keeps what the asset stores held for the video when a thumbnail
\* request came in.
\* Two requests may overlap, in any interleaving of their steps; up to
\* MaxStarts requests follow one another when none overlaps.
Free(r) == rq[r].pc \in {"idle", "done"}

MayStart(r) ==
    /\ Free(r)
    /\ started < MaxStarts
    /\ rq["r2"].pc = "idle"
    /\ IF r = "r1" THEN TRUE ELSE ~Free("r1") /\ started = 1

Start(r) ==
    /\ MayStart(r)
    /\ started' = started + 1
    /\ \E h \in Handlers \cap {"video", thumbVariant}, idStr \in IDStrings :
          LET rec == [IdleReq EXCEPT !.handler = h, !.run = started + 1]
          IN  IF ~uuidOK(idStr)
              THEN rq' = [rq EXCEPT ![r] = Respond(rec, StatusBadRequest, "Invalid ID")]
              ELSE rq' = [rq EXCEPT ![r] =
                            [rec EXCEPT !.pc = "auth", !.videoID = uuidParse(idStr),
                                        !.saved = IF h = "video" THEN @
                                                  ELSE AssetsOf(disk, videoThumbnails,
                                                                uuidParse(idStr))]]
    /\ UNCHANGED <<db, s3, disk, videoThumbnails, fixedVars>>

\* auth.GetBearerToken(r.Header), then auth.ValidateJWT(token, cfg.jwtSecret)
AuthOutcome(rec, hdr) ==
    LET withHdr == Called([rec EXCEPT !.header = hdr], "GetBearerToken")
        token == GetBearerToken(hdr)
        user == ValidateJWT(token.val)
    IN  IF ~token.ok
        THEN Respond(withHdr, StatusUnauthorized, "Couldn't find JWT")
        ELSE IF ~user.ok
        THEN Respond(Called(withHdr, "ValidateJWT"), StatusUnauthorized,
                     "Couldn't validate JWT")
        ELSE [Called(withHdr, "ValidateJWT") EXCEPT !.userID = user.val,
                             !.pc = IF rec.handler = "video" THEN "getVideo" ELSE "formFile"]

Authenticate(r) ==
    /\ rq[r].pc = "auth"
    /\ \E hdr \in Headers : rq' = [rq EXCEPT ![r] = AuthOutcome(rq[r], hdr)]
    /\ UNCHANGED <<started, db, s3, disk, videoThumbnails, fixedVars>>

\* The ownership test of the handlers: video.UserID != userID
NotOwner_Never(video, userID) == FALSE

NotOwner(video, userID) == video.UserID # userID

\* cfg.db.GetVideo(videoID) and the ownership test that follows it.
FetchOutcome_Forbidden(rec, res, next) ==
    LET fetched == Called(rec, "GetVideo")
    IN  IF ~res.ok
        THEN Respond(fetched, 404, "Couldn't find video")
        ELSE IF NotOwner(res.val, rec.userID)
        THEN Respond([fetched EXCEPT !.video = res.val], 403,
                     "Not authorized to update this video")
        ELSE [fetched EXCEPT !.video = res.val, !.pc = next]

FetchOutcome(rec, res, next) ==
    LET fetched == Called(rec, "GetVideo")
    IN  IF ~res.ok
        THEN Respond(fetched, StatusInternalServerError, "Couldn't find video")
        ELSE IF NotOwner(res.val, rec.userID)
        THEN Respond([fetched EXCEPT !.video = res.val], StatusUnauthorized,
                     "Not authorized to update this video")
        ELSE [fetched EXCEPT !.video = res.val, !.pc = next]

\* The step after the ownership test, per handler.
AfterFetch(h) ==
    CASE h = "video" -> "formFile"
      [] h = "thumbDisk" -> "update"
      [] h = "thumbMap" -> "storeThumb"

GetVideo(r) ==
    /\ rq[r].pc = "getVideo"
    /\ \E res \in GetVideoResults(rq[r].videoID) :
          LET out == FetchOutcome(rq[r], res, AfterFetch(rq[r].handler))
          IN  /\ rq' = [rq EXCEPT ![r] = out]
              /\ disk' = IF out.pc = "done" THEN AfterReturn(disk, rq[r]) ELSE disk
    /\ UNCHANGED <<started, db, s3, videoThumbnails, fixedVars>>

\* ------------------------------------------------------ handlerUploadVideo
\* http.MaxBytesReader(w, r.Body, uploadLimit): reading a body of n bytes
\* fails once more than limit bytes are read.
MaxBytesReader_NoLimit(limit, n) == TRUE

MaxBytesReader(limit, n) == n <= limit

\* r.FormFile("video") on the size-limited body, defer file.Close(), and
\* the media type test (mime.ParseMediaType, "video/mp4").
\* A part that would spill to disk during the parse of an oversized body
\* is removed again by the parse itself before FormFile returns.
VideoFormOutcome_AnyType(rec, size, part, ctype) ==
    LET got == Called([rec EXCEPT !.size = size, !.part = part, !.ctype = ctype],
                      "FormFile")
    IN  IF ~MaxBytesReader(uploadLimit, size) \/ ~part
        THEN Respond(got, StatusBadRequest, "Unable to parse form file")
        ELSE [got EXCEPT !.mediaType = ctype, !.pc = "createTemp",
                         !.defers = Defer(rec.defers, "close", <<"file">>)]

VideoFormOutcome(rec, size, part, ctype) ==
    LET got == Called([rec EXCEPT !.size = size, !.part = part, !.ctype = ctype],
                      "FormFile")
        mt == ParseMediaType(ctype)
    IN  IF ~MaxBytesReader(uploadLimit, size) \/ ~part
        THEN Respond(got, StatusBadRequest, "Unable to parse form file")
        ELSE IF ~mt.ok
        THEN Respond(got, StatusBadRequest, "Invalid Content-Type")
        ELSE IF mt.val # VideoMP4
        THEN Respond([got EXCEPT !.mediaType = mt.val], StatusBadRequest,
                     "Invalid file type, only MP4 is allowed")
        ELSE [got EXCEPT !.mediaType = mt.val, !.pc = "createTemp",
                         !.defers = Defer(rec.defers, "close", <<"file">>)]

VideoFormFile(r) ==
    /\ rq[r].pc = "formFile" /\ rq[r].handler = "video"
    /\ \E size \in VideoBodySizes, part \in BOOLEAN, ctype \in VideoCTypes :
          \* a body without the part has no Content-Type to vary
          /\ (~part => ctype = <<>>)
          /\ rq' = [rq EXCEPT ![r] = VideoFormOutcome(rq[r], size, part, ctype)]
    /\ UNCHANGED <<started, db, s3, disk, videoThumbnails, fixedVars>>

\* os.CreateTemp("", "tubely-upload.mp4"), defer os.Remove, defer Close
CreateTemp_CloseDeferredFirst(r) ==
    /\ rq[r].pc = "createTemp"
    /\ LET name == tempName(rq[r].run)
           rec == Called(rq[r], "CreateTemp")
       IN  \/ Return(r, rec, StatusInternalServerError, "Could not create temp file", disk)
           \/ /\ disk' = Store(disk, name, Content(rq[r].run, 0))
              /\ Goto(r, [rec EXCEPT
                            !.tempFile = name, !.wroteLocal = TRUE,
                            !.defers = Defer(Defer(rq[r].defers, "close", name),
                                             "remove", name)],
                      "copy")
    /\ UNCHANGED <<started, db, s3, videoThumbnails, fixedVars>>

CreateTemp(r) ==
    /\ rq[r].pc = "createTemp"
    /\ LET name == tempName(rq[r].run)
           rec == Called(rq[r], "CreateTemp")
       IN  \/ Return(r, rec, StatusInternalServerError, "Could not create temp file", disk)
           \/ /\ disk' = Store(disk, name, Content(rq[r].run, 0))
              /\ Goto(r, [rec EXCEPT
                            !.tempFile = name, !.wroteLocal = TRUE,
                            !.defers = Defer(Defer(rq[r].defers, "remove", name),
                                             "close", name)],
                      "copy")
    /\ UNCHANGED <<started, db, s3, videoThumbnails, fixedVars>>

\* io.Copy(tempFile, file), then tempFile.Seek(0, io.SeekStart)
CopyToTemp(r) ==
    /\ rq[r].pc = "copy"
    /\ LET name == rq[r].tempFile
           full == Store(disk, name, Content(rq[r].run, rq[r].size))
           copied == Called(rq[r], "Copy")
       IN  \/ Return(r, copied, StatusInternalServerError, "Could not write file to disk", disk)
           \/ Return(r, Called(copied, "Seek"), StatusInternalServerError,
                     "Could not reset file pointer", full)
           \/ /\ disk' = full
              /\ Goto(r, Called(copied, "Seek"), "probe")
    /\ UNCHANGED <<started, db, s3, videoThumbnails, fixedVars>>

\* getVideoAspectRatio(tempFile.Name()) and the switch on its result.
\* ffprobe fails, prints no JSON, prints no stream, or prints streams of
\* the first of which gives width and height (output.Streams[0]).
ProbeVideo_RetryOnce(r) ==
    /\ rq[r].pc = "probe"
    /\ \/ \E f \in ProbeFailures :
            IF Calls(rq[r], "ffprobe") = 0
            THEN /\ Goto(r, Called(rq[r], "ffprobe"), "probe")
                 /\ disk' = disk
            ELSE Return(r, [Called(rq[r], "ffprobe") EXCEPT !.err = f],
                        StatusInternalServerError, "Error determining aspect ratio", disk)
       \/ \E streams \in ProbeOutputs :
            /\ Goto(r, [Called(rq[r], "ffprobe") EXCEPT
                          !.streams = streams,
                          !.geom = streams[1],
                          !.directory = directoryOf(getVideoAspectRatio(streams[1][1],
                                                                  streams[1][2]))],
                    "assetPath")
            /\ disk' = disk
    /\ UNCHANGED <<started, db, s3, videoThumbnails, fixedVars>>

ProbeVideo_ErrorAsOther(r) ==
    /\ rq[r].pc = "probe"
    /\ \/ \E f \in ProbeFailures :
            /\ Goto(r, [Called(rq[r], "ffprobe") EXCEPT !.err = f,
                                                        !.directory = <<"other">>],
                    "assetPath")
            /\ disk' = disk
       \/ \E streams \in ProbeOutputs :
            /\ Goto(r, [Called(rq[r], "ffprobe") EXCEPT
                          !.streams = streams,
                          !.geom = streams[1],
                          !.directory = directoryOf(getVideoAspectRatio(streams[1][1],
                                                                  streams[1][2]))],
                    "assetPath")
            /\ disk' = disk
    /\ UNCHANGED <<started, db, s3, videoThumbnails, fixedVars>>

ProbeVideo(r) ==
    /\ rq[r].pc = "probe"
    /\ \/ \E f \in ProbeFailures :
            Return(r, [Called(rq[r], "ffprobe") EXCEPT !.err = f],
                   StatusInternalServerError, "Error determining aspect ratio", disk)
       \/ \E streams \in ProbeOutputs :
            /\ Goto(r, [Called(rq[r], "ffprobe") EXCEPT
                          !.streams = streams,
                          !.geom = streams[1],
                          !.directory = directoryOf(getVideoAspectRatio(streams[1][1],
                                                                  streams[1][2]))],
                    "assetPath")
            /\ disk' = disk
    /\ UNCHANGED <<started, db, s3, videoThumbnails, fixedVars>>

\* key := getAssetPath(mediaType); key = path.Join(directory, key).
\* rand.Read failing makes getAssetPath panic: the deferred calls run and
\* no response is written.
VideoKey(directory, id, mediaType) ==
    pathJoin(directory, getAssetPathRandom(id, mediaType))

AssetPath(r) ==
    /\ rq[r].pc = "assetPath"
    /\ \/ Return(r, Called(rq[r], "rand.Read"), 0,
                 "panic: failed to generate random bytes", disk)
       \/ \E id \in RandIDs :
            /\ Goto(r, [Called(rq[r], "rand.Read") EXCEPT !.key = VideoKey(rq[r].directory, id, rq[r].mediaType)],
                    "fastStart")
            /\ disk' = disk
    /\ UNCHANGED <<started, db, s3, videoThumbnails, fixedVars>>

\* processVideoForFastStart(inputFilePath) on the disk d for run: the
\* outcome of ffmpeg, then os.Stat and the size test.  ffmpeg exits
\* nonzero with or without a partial output file, exits zero with no
\* file, an empty file or a full one.
processVideoForFastStart(d, inputFilePath, run, outcome) ==
    LET processedFilePath == processingPath(inputFilePath)
        out == CASE outcome = "exit" -> d
                 [] outcome = "exitPartial" -> Store(d, processedFilePath, Content(run, 1))
                 [] outcome = "nofile" -> d
                 [] outcome = "empty" -> Store(d, processedFilePath, Content(run, 0))
                 [] outcome = "ok" -> Store(d, processedFilePath, FastStartOf(d[inputFilePath]))
    IN  IF outcome \in {"exit", "exitPartial"}
        THEN [ok |-> FALSE, err |-> "error processing video", disk |-> out]
        ELSE IF processedFilePath \notin DOMAIN out
        THEN [ok |-> FALSE, err |-> "could not stat processed file", disk |-> out]
        ELSE IF out[processedFilePath].size = 0
        THEN [ok |-> FALSE, err |-> "processed file is empty", disk |-> out]
        ELSE [ok |-> TRUE, val |-> processedFilePath, disk |-> out]

\* processVideoForFastStart builds the command with exec.Command, which
\* takes no context, and enters cmd.Run(): the subprocess is running.
StartFFmpeg(r) ==
    /\ rq[r].pc = "fastStart"
    /\ Goto(r, Called(rq[r], "ffmpeg"), "ffmpeg")
    /\ UNCHANGED <<started, db, s3, disk, videoThumbnails, fixedVars>>

\* The client goes away while the subprocess runs: r.Context() is
\* cancelled.  The handler reads r.Context() in the PutObject call only,
\* so a cancellation at another step changes nothing else.
Cancel(r) ==
    /\ rq[r].pc = "ffmpeg" /\ ~rq[r].cancelled
    /\ Goto(r, [rq[r] EXCEPT !.cancelled = TRUE], "ffmpeg")
    /\ UNCHANGED <<started, db, s3, disk, videoThumbnails, fixedVars>>

\* processedFilePath, err := processVideoForFastStart(tempFile.Name());
\* defer os.Remove(processedFilePath) once it has succeeded.
FastStart_IgnoreError(r) ==
    /\ rq[r].pc = "ffmpeg"
    /\ \E outcome \in FFmpegOutcomes :
          LET res == processVideoForFastStart(disk, rq[r].tempFile, rq[r].run, outcome)
              rec == [rq[r] EXCEPT !.wroteLocal = TRUE, !.ffmpeg = outcome]
              out == processingPath(rq[r].tempFile)
          IN  /\ disk' = res.disk
              /\ Goto(r, [rec EXCEPT !.processedFilePath = out,
                                     !.defers = Defer(rec.defers, "remove", out)],
                      "open")
    /\ UNCHANGED <<started, db, s3, videoThumbnails, fixedVars>>

FastStart(r) ==
    /\ rq[r].pc = "ffmpeg"
    /\ \E outcome \in FFmpegOutcomes :
          LET res == processVideoForFastStart(disk, rq[r].tempFile, rq[r].run, outcome)
              rec == [rq[r] EXCEPT !.wroteLocal = TRUE, !.ffmpeg = outcome]
          IN  IF ~res.ok
              THEN Return(r, [rec EXCEPT !.err = res.err], StatusInternalServerError,
                          "Error processing video", res.disk)
              ELSE /\ disk' = res.disk
                   /\ Goto(r, [rec EXCEPT !.processedFilePath = res.val,
                                          !.defers = Defer(rec.defers, "remove", res.val)],
                           "open")
    /\ UNCHANGED <<started, db, s3, videoThumbnails, fixedVars>>

\* processedFile, err := os.Open(processedFilePath); defer Close
OpenProcessed(r) ==
    /\ rq[r].pc = "open"
    /\ \/ Return(r, Called(rq[r], "Open"), StatusInternalServerError,
                 "Could not open processed file", disk)
       \/ /\ Goto(r, [Called(rq[r], "Open") EXCEPT
                        !.defers = Defer(rq[r].defers, "close", rq[r].processedFilePath)],
                  "put")
          /\ disk' = disk
    /\ UNCHANGED <<started, db, s3, videoThumbnails, fixedVars>>

\* cfg.s3Client.PutObject(r.Context(), ...) with Key key, Body
\* processedFile, ContentType mediaType; it fails on a cancelled context.
PutObject_StagedBody(r) ==
    /\ rq[r].pc = "put"
    /\ \E res \in PutObjectResults(rq[r].key, disk[rq[r].tempFile], rq[r].mediaType) :
          LET rec == Called(rq[r], "PutObject")
          IN  /\ rq[r].cancelled => ~res.ok
              /\ s3' = res.s3
              /\ IF ~res.ok
                 THEN Return(r, rec, StatusInternalServerError, "Error uploading file to S3", disk)
                 ELSE /\ Goto(r, [rec EXCEPT !.wroteStore = TRUE], "update")
                      /\ disk' = disk
    /\ UNCHANGED <<started, db, videoThumbnails, fixedVars>>

PutObject(r) ==
    /\ rq[r].pc = "put"
    /\ \E res \in PutObjectResults(rq[r].key, disk[rq[r].processedFilePath], rq[r].mediaType) :
          LET rec == Called(rq[r], "PutObject")
          IN  /\ rq[r].cancelled => ~res.ok
              /\ s3' = res.s3
              /\ IF ~res.ok
                 THEN Return(r, rec, StatusInternalServerError, "Error uploading file to S3", disk)
                 ELSE /\ Goto(r, [rec EXCEPT !.wroteStore = TRUE], "update")
                      /\ disk' = disk
    /\ UNCHANGED <<started, db, videoThumbnails, fixedVars>>

\* url := https://<distribution>/<key>; video.VideoURL = &url;
\* cfg.db.UpdateVideo(video); respondWithJSON(w, http.StatusOK, video)
UpdateVideoURL_DeleteOnFailure(r) ==
    /\ rq[r].pc = "update" /\ rq[r].handler = "video"
    /\ LET video == [rq[r].video EXCEPT !.VideoURL = videoURL(rq[r].key)]
           rec == Called([rq[r] EXCEPT !.video = video], "UpdateVideo")
       IN  \E res \in UpdateVideoResults(rq[r].videoID, video) :
              /\ db' = res.db
              /\ IF ~res.ok
                 THEN /\ s3' = Remove(s3, rq[r].key)
                      /\ Return(r, Called(rec, "DeleteObject"), StatusInternalServerError,
                                "Couldn't update video", disk)
                 ELSE /\ s3' = s3
                      /\ Return(r, rec, StatusOK, "", disk)
    /\ UNCHANGED <<started, videoThumbnails, fixedVars>>

UpdateVideoURL(r) ==
    /\ rq[r].pc = "update" /\ rq[r].handler = "video"
    /\ LET video == [rq[r].video EXCEPT !.VideoURL = videoURL(rq[r].key)]
           rec == Called([rq[r] EXCEPT !.video = video], "UpdateVideo")
       IN  \E res \in UpdateVideoResults(rq[r].videoID, video) :
              /\ db' = res.db
              /\ IF ~res.ok
                 THEN Return(r, rec, StatusInternalServerError, "Couldn't update video", disk)
                 ELSE Return(r, rec, StatusOK, "", disk)
    /\ UNCHANGED <<started, s3, videoThumbnails, fixedVars>>

\* -------------------------------------------------- handlerUploadThumbnail
\* r.ParseMultipartForm(maxMemory), its error dropped, r.FormFile("thumbnail"),
\* defer file.Close(), and the test of the part's Content-Type header.
\* The body is not size-limited; a part beyond maxMemory bytes is kept in
\* a temporary file by mime/multipart.
ThumbFormOutcome(rec, size, part, ctype) ==
    LET got == Called([rec EXCEPT !.size = size, !.part = part, !.ctype = ctype],
                      "FormFile")
    IN  IF ~part
        THEN Respond(got, StatusBadRequest, "Unable to parse form file")
        ELSE IF ctype = <<>>
        THEN Respond(got, StatusBadRequest, "Missing Content-Type for thumbnail")
        ELSE [got EXCEPT !.mediaType = ctype,
                         !.defers = Defer(rec.defers, "close", <<"file">>),
                         !.pc = IF rec.handler = "thumbDisk" THEN "createAsset" ELSE "readAll"]

ThumbFormFile(r) ==
    /\ rq[r].pc = "formFile" /\ rq[r].handler # "video"
    /\ \E size \in ThumbBodySizes, part \in BOOLEAN, ctype \in ThumbCTypes :
          /\ (~part => ctype = <<>> /\ size = 1)
          /\ LET out == ThumbFormOutcome(rq[r], size, part, ctype)
                 spilled == IF part /\ size > maxMemory
                            THEN Store(disk, multipartName(rq[r].run), Content(rq[r].run, size))
                            ELSE disk
             IN  /\ rq' = [rq EXCEPT ![r] = out]
                 /\ disk' = IF out.pc = "done" THEN AfterReturn(spilled, rq[r]) ELSE spilled
    /\ UNCHANGED <<started, db, s3, videoThumbnails, fixedVars>>

\* Disk variant: assetPath := getAssetPath(videoID, mediaType);
\* dst, err := os.Create(cfg.getAssetDiskPath(assetPath)); defer dst.Close()
CreateAsset(r) ==
    /\ rq[r].pc = "createAsset"
    /\ LET assetPath == getAssetPath(rq[r].videoID, rq[r].mediaType)
           assetDiskPath == getAssetDiskPath(assetPath)
           rec == Called([rq[r] EXCEPT !.assetPath = assetPath], "Create")
       IN  \/ Return(r, rec, StatusInternalServerError, "Unable to create file on server", disk)
           \/ /\ disk' = Store(disk, assetDiskPath, Content(rq[r].run, 0))
              /\ Goto(r, [rec EXCEPT !.wroteLocal = TRUE, !.wroteStore = TRUE,
                                     !.defers = Defer(rec.defers, "close", assetDiskPath)],
                      "copyAsset")
    /\ UNCHANGED <<started, db, s3, videoThumbnails, fixedVars>>

\* io.Copy(dst, file)
CopyAsset(r) ==
    /\ rq[r].pc = "copyAsset"
    /\ \/ Return(r, Called(rq[r], "Copy"), StatusInternalServerError,
                 "Error saving file", disk)
       \/ /\ disk' = Store(disk, getAssetDiskPath(rq[r].assetPath),
                           Content(rq[r].run, rq[r].size))
          /\ Goto(r, Called(rq[r], "Copy"), "getVideo")
    /\ UNCHANGED <<started, db, s3, videoThumbnails, fixedVars>>

\* url := cfg.getAssetURL(assetPath); video.ThumbnailURL = &url;
\* cfg.db.UpdateVideo(video)
UpdateThumbnailDisk(r) ==
    /\ rq[r].pc = "update" /\ rq[r].handler = "thumbDisk"
    /\ LET video == [rq[r].video EXCEPT !.ThumbnailURL = getAssetURL(rq[r].assetPath)]
           rec == Called([rq[r] EXCEPT !.video = video], "UpdateVideo")
       IN  \E res \in UpdateVideoResults(rq[r].videoID, video) :
              /\ db' = res.db
              /\ IF ~res.ok
                 THEN Return(r, rec, StatusInternalServerError, "Couldn't update video", disk)
                 ELSE Return(r, rec, StatusOK, "", disk)
    /\ UNCHANGED <<started, s3, videoThumbnails, fixedVars>>

\* Map variant: data, err := io.ReadAll(file)
ReadAll(r) ==
    /\ rq[r].pc = "readAll"
    /\ \/ Return(r, Called(rq[r], "ReadAll"), StatusInternalServerError,
                 "Error reading file", disk)
       \/ /\ Goto(r, Called(rq[r], "ReadAll"), "getVideo")
          /\ disk' = disk
    /\ UNCHANGED <<started, db, s3, videoThumbnails, fixedVars>>

\* videoThumbnails[videoID] = thumbnail{data: data, mediaType: mediaType}
StoreThumbnail(r) ==
    /\ rq[r].pc = "storeThumb"
    /\ videoThumbnails' = Store(videoThumbnails, rq[r].videoID,
                                [data |-> Content(rq[r].run, rq[r].size),
                                 mediaType |-> rq[r].mediaType])
    /\ Goto(r, [Called(rq[r], "videoThumbnails") EXCEPT !.wroteStore = TRUE], "update")
    /\ UNCHANGED <<started, db, s3, disk, fixedVars>>

\* url := http://localhost:<port>/api/thumbnails/<videoID>;
\* video.ThumbnailURL = &url; cfg.db.UpdateVideo(video), and on its
\* failure delete(videoThumbnails, videoID)
UpdateThumbnailMap(r) ==
    /\ rq[r].pc = "update" /\ rq[r].handler = "thumbMap"
    /\ LET video == [rq[r].video EXCEPT !.ThumbnailURL = thumbnailURL(rq[r].videoID)]
           rec == Called([rq[r] EXCEPT !.video = video], "UpdateVideo")
       IN  \E res \in UpdateVideoResults(rq[r].videoID, video) :
              /\ db' = res.db
              /\ IF ~res.ok
                 THEN /\ videoThumbnails' = Remove(videoThumbnails, rq[r].videoID)
                      /\ Return(r, rec, StatusInternalServerError, "Couldn't update video", disk)
                 ELSE /\ videoThumbnails' = videoThumbnails
                      /\ Return(r, rec, StatusOK, "", disk)
    /\ UNCHANGED <<started, s3, fixedVars>>

\* Two in-flight requests both at a statement that writes the global map
\* (the store at line 212, the delete at line 226): the map has no lock,
\* and the runtime may detect the race and end the process with
\* "fatal error: concurrent map writes"; no deferred call runs.
AtMapAccess(r) ==
    rq[r].handler = "thumbMap" /\ rq[r].pc \in {"storeThumb", "update"}

Crashed(rec) ==
    [Called(rec, "fatal") EXCEPT !.pc = "done", !.status = 0,
                                 !.msg = "fatal error: concurrent map writes"]

ConcurrentMapWrites(r) ==
    /\ AtMapAccess(r)
    /\ \E r2 \in Reqs \ {r} : AtMapAccess(r2)
    /\ rq' = [q \in Reqs |-> IF Free(q) THEN rq[q] ELSE Crashed(rq[q])]
    /\ UNCHANGED <<started, db, s3, disk, videoThumbnails, fixedVars>>

\* ------------------------------------------------------------ the server
Step(r) ==
    \/ Start(r)
    \/ Authenticate(r)
    \/ GetVideo(r)
    \/ VideoFormFile(r)
    \/ CreateTemp(r)
    \/ CopyToTemp(r)
    \/ ProbeVideo(r)
    \/ AssetPath(r)
    \/ StartFFmpeg(r)
    \/ Cancel(r)
    \/ FastStart(r)
    \/ OpenProcessed(r)
    \/ PutObject(r)
    \/ UpdateVideoURL(r)
    \/ ThumbFormFile(r)
    \/ CreateAsset(r)
    \/ CopyAsset(r)
    \/ UpdateThumbnailDisk(r)
    \/ ReadAll(r)
    \/ StoreThumbnail(r)
    \/ UpdateThumbnailMap(r)
    \/ ConcurrentMapWrites(r)

Next == \E r \in Reqs : Step(r)

Spec == Init /\ [][Next]_vars

\* ------------------------------------------- aspect-ratio specification
\* getVideoAspectRatio applied to every geometry 0..MaxDim x 0..MaxDim and
\* to the usual video geometries.
RatioDims == (0..MaxDim) \cup {480, 720, 768, 853, 1000, 1080, 1280, 1365, 1366, 1920}

RatioInit ==
    /\ rq = [r \in Reqs |-> IdleReq]
    /\ started = 0
    /\ db = [v \in {"v1"} |-> [UserID |-> "u1", VideoURL |-> Nil, ThumbnailURL |-> Nil]]
    /\ s3 = <<>>
    /\ disk = <<>>
    /\ videoThumbnails = <<>>
    /\ thumbVariant = "thumbDisk"
    /\ width \in RatioDims /\ height \in RatioDims
    /\ aspectRatio = ""
    /\ extArg = <<>> /\ extRes = <<>> /\ keyArgs = <<>> /\ keyRes = <<>>

Classify ==
    /\ aspectRatio = ""
    /\ aspectRatio' = getVideoAspectRatio(width, height)
    /\ UNCHANGED <<width, height, serverVars, assetVars>>

RatioNext == Classify

RatioSpec == RatioInit /\ [][RatioNext]_vars

\* ------------------------------------------------ extension specification
\* mediaTypeToExt applied to every string of at most MaxLen symbols.
MaxLen == 3
TypeSymbols == {"image", "png", "video", "mp4", "/"}
RECURSIVE StringsUpTo(_)
StringsUpTo(n) ==
    IF n = 0 THEN {<<>>}
    ELSE LET shorter == StringsUpTo(n - 1)
         IN  shorter \cup {Append(s, c) : s \in shorter, c \in TypeSymbols}
MediaTypeStrings == StringsUpTo(MaxLen)

ExtInit ==
    /\ rq = [r \in Reqs |-> IdleReq]
    /\ started = 0
    /\ db = [v \in {"v1"} |-> [UserID |-> "u1", VideoURL |-> Nil, ThumbnailURL |-> Nil]]
    /\ s3 = <<>>
    /\ disk = <<>>
    /\ videoThumbnails = <<>>
    /\ thumbVariant = "thumbDisk"
    /\ width = 0 /\ height = 0 /\ aspectRatio = ""
    /\ extArg \in MediaTypeStrings /\ extRes = <<>>
    /\ keyArgs = <<>> /\ keyRes = <<>>

ResolveExt ==
    /\ extRes = <<>>
    /\ extRes' = mediaTypeToExt(extArg)
    /\ UNCHANGED <<extArg, keyArgs, keyRes, serverVars, ratioVars>>

ExtNext == ResolveExt

ExtSpec == ExtInit /\ [][ExtNext]_vars

\* ------------------------------------------------------ key specification
\* The deterministic getAssetPath called MaxKeyCalls times in a row, on
\* any identifiers and media types.
MaxKeyCalls == 2
KeyMediaTypes == {<<>>, <<"image">>, ImagePNG, VideoMP4, <<"image", "/">>}
KeyCalls == [videoID : VideoIDs, mediaType : KeyMediaTypes]

KeyInit ==
    /\ rq = [r \in Reqs |-> IdleReq]
    /\ started = 0
    /\ db = [v \in {"v1"} |-> [UserID |-> "u1", VideoURL |-> Nil, ThumbnailURL |-> Nil]]
    /\ s3 = <<>>
    /\ disk = <<>>
    /\ videoThumbnails = <<>>
    /\ thumbVariant = "thumbDisk"
    /\ width = 0 /\ height = 0 /\ aspectRatio = ""
    /\ extArg = <<>> /\ extRes = <<>>
    /\ keyArgs \in [1..MaxKeyCalls -> KeyCalls] /\ keyRes = <<>>

DeriveKey ==
    /\ Len(keyRes) < Len(keyArgs)
    /\ LET call == keyArgs[Len(keyRes) + 1]
       IN  keyRes' = Append(keyRes, getAssetPath(call.videoID, call.mediaType))
    /\ UNCHANGED <<keyArgs, extArg, extRes, serverVars, ratioVars>>

KeyNext == DeriveKey

KeySpec == KeyInit /\ [][KeyNext]_vars

\* ================================================================ claims
Done(r) == rq[r].pc = "done"
Video(r) == rq[r].handler = "video"
\* The run fetched a record whose owner is not the caller.
OwnerMismatch(r) ==
    /\ Calls(rq[r], "GetVideo") = 1
    /\ rq[r].video # NoVideo
    /\ rq[r].video.UserID # rq[r].userID
\* The staged file of the run of slot r and the output file of its remux.
StagedPath(r) == <<"/tmp/tubely-upload.mp4", rq[r].run>>
ProcessedPath(r) == <<"/tmp/tubely-upload.mp4", rq[r].run, ".processing">>

\* C1: in every upload handler a run that ends with the owner-mismatch
\* failure has created or written no file on local disk and has written
\* nothing to the object store or the asset store.
C1_NoWriteBeforeForbidden ==
    \A r \in Reqs :
        Done(r) /\ OwnerMismatch(r) => ~rq[r].wroteLocal /\ ~rq[r].wroteStore

\* C2: once handlerUploadVideo has returned, neither the staged temporary
\* file of the run nor the remux output <staged path>.processing exists.
C2_NoTempFileAfterReturn ==
    \A r \in Reqs :
        Done(r) /\ Video(r) =>
            StagedPath(r) \notin DOMAIN disk /\ ProcessedPath(r) \notin DOMAIN disk

\* C3: when ffmpeg exits zero and its output file is empty, the run fails
\* with the transcode failure, puts nothing, and the empty output file is
\* gone when the handler has returned.
EmptyOutputRun(r) == Done(r) /\ Video(r) /\ rq[r].err = "processed file is empty"

C3_EmptyOutputRemoved ==
    \A r \in Reqs :
        EmptyOutputRun(r) =>
            /\ rq[r].status = 500
            /\ rq[r].msg = "Error processing video"
            /\ Calls(rq[r], "PutObject") = 0
            /\ ProcessedPath(r) \notin DOMAIN disk

\* C4: a video upload with a valid credential, owner equal to caller,
\* content type video/mp4 and no failing collaborator call ends persisted:
\* one put, one update, status 200, and the update stores on the record
\* the URL https://<distribution>/<key> of exactly the key that was put.
ValidVideoRun(r) ==
    /\ Video(r)
    /\ rq[r].userID # NoUser
    /\ rq[r].videoID \in DOMAIN db
    /\ db[rq[r].videoID].UserID = rq[r].userID
    /\ rq[r].part /\ rq[r].size <= 1073741824
    /\ rq[r].ctype = <<"video", "/", "mp4">>
\* A collaborator call failed: the handlers answer those with status 500,
\* and a failing entropy source ends the run with a panic (no status).
CollaboratorFailed(r) == rq[r].status \in {500, 0}
ExpectedVideoURL(r) == <<"https://", "cf.example", "/">> \o rq[r].key

C4_Final ==
    \A r \in Reqs :
        Done(r) /\ ValidVideoRun(r) /\ ~CollaboratorFailed(r) =>
            /\ rq[r].status = 200
            /\ Calls(rq[r], "PutObject") = 1
            /\ Calls(rq[r], "UpdateVideo") = 1
            /\ rq[r].key \in DOMAIN s3
            /\ rq[r].video.VideoURL # Nil
            /\ rq[r].video.VideoURL = ExpectedVideoURL(r)

C4_Persist ==
    \A r \in Reqs :
        Video(r) /\ ~Done(r) /\ rq'[r].pc = "done" /\ rq'[r].status = 200 =>
            /\ rq[r].key \in DOMAIN s3
            /\ db'[rq[r].videoID].VideoURL = ExpectedVideoURL(r)
            /\ db'[rq[r].videoID].VideoURL # Nil

C4_ValidUploadPersisted == []C4_Final /\ [][C4_Persist]_vars

C4_Witness ==
    \E r \in Reqs :
        /\ Done(r) /\ ValidVideoRun(r) /\ rq[r].status = 200
        /\ db[rq[r].videoID].VideoURL = ExpectedVideoURL(r)

\* C5: no handler calls UpdateVideo for a record whose owner, as fetched
\* in that request, differs from the caller resolved from the credential,
\* in any sequence or interleaving of requests of owners and non-owners.
C5_UpdateOnlyByOwner ==
    \A r \in Reqs :
        Calls(rq[r], "UpdateVideo") > 0 =>
            /\ rq[r].userID # NoUser
            /\ rq[r].video.UserID = rq[r].userID
            /\ db[rq[r].videoID].UserID = rq[r].userID

C5_Witness ==
    \E r1, r2 \in Reqs :
        /\ Calls(rq[r1], "UpdateVideo") = 1 /\ rq[r1].status = 200
        /\ Done(r2) /\ OwnerMismatch(r2)
        /\ rq[r2].videoID = rq[r1].videoID

\* C6 (as claimed): a run whose record is absent, and a run whose record
\* has another owner, each end with a status that is neither the status
\* of a missing or invalid credential (401) nor that of internal failures
\* (500).
AbsentRecord(r) == Calls(rq[r], "GetVideo") = 1 /\ rq[r].videoID \notin DOMAIN db
Unauthenticated(r) ==
    /\ rq[r].trail # <<>>
    /\ rq[r].trail[Len(rq[r].trail)] \in {"GetBearerToken", "ValidateJWT"}

TokenInvalid(tok) ==
    \/ tok.sig # "good"
    \/ tok.expired
    \/ tok.iss # "tubely-access"
    \/ tok.sub \notin Users
HeaderRead(r) == Calls(rq[r], "GetBearerToken") = 1
EndsUnauthenticated(r) ==
    /\ Done(r)
    /\ rq[r].status = 401
    /\ rq[r].msg \in {"Couldn't find JWT", "Couldn't validate JWT"}
    /\ Calls(rq[r], "GetVideo") = 0
    /\ Calls(rq[r], "UpdateVideo") = 0
    /\ Calls(rq[r], "PutObject") = 0
    /\ ~rq[r].wroteLocal /\ ~rq[r].wroteStore

Oversized(r) ==
    Video(r) /\ Calls(rq[r], "FormFile") = 1 /\ rq[r].size > 1073741824

C8_OversizedRejected ==
    \A r \in Reqs :
        Oversized(r) =>
            /\ Done(r)
            /\ rq[r].status = 400
            /\ rq[r].msg = "Unable to parse form file"
            /\ Calls(rq[r], "CreateTemp") = 0
            /\ Calls(rq[r], "PutObject") = 0
            /\ StagedPath(r) \notin DOMAIN disk

C8_Witness ==
    \E r \in Reqs :
        /\ Oversized(r) /\ Done(r) /\ rq[r].status = 400
        /\ Calls(rq[r], "GetVideo") = 1 /\ rq[r].video.UserID = rq[r].userID

\* C9: the probed geometry 1920x1080 puts the key under landscape,
\* 1080x1920 under portrait and 1000x1000 under other.
C9_Orientation ==
    \A r \in Reqs :
        LET dir == CASE rq[r].geom = <<1920, 1080>> -> <<"landscape">>
                     [] rq[r].geom = <<1080, 1920>> -> <<"portrait">>
                     [] rq[r].geom = <<1000, 1000>> -> <<"other">>
                     [] OTHER -> rq[r].directory
        IN  /\ rq[r].directory = dir
            /\ rq[r].key # <<>> => SubSeq(rq[r].key, 1, 2) = dir \o <<"/">>

C9_Witness ==
    \E r1, r2 \in Reqs :
        /\ rq[r1].geom = <<1920, 1080>> /\ rq[r1].key # <<>> /\ rq[r1].key[1] = "landscape"
        /\ rq[r2].geom = <<1080, 1920>> /\ rq[r2].key # <<>> /\ rq[r2].key[1] = "portrait"

\* C10: for positive widths and heights getVideoAspectRatio answers "16:9"
\* only if 9*width = 16*height and "9:16" only if 9*height = 16*width.
C10_ExactRatioOnly ==
    width >= 1 /\ height >= 1 =>
        /\ aspectRatio = "16:9" => 9 * width = 16 * height
        /\ aspectRatio = "9:16" => 9 * height = 16 * width

\* C11: mediaTypeToExt gives ".png" for "image/png" and ".mp4" for
\* "video/mp4", for any string with one "/" the "." followed by what comes
\* after the "/", and ".bin" for every string without a "/".
Slashes(str) == {i \in 1..Len(str) : str[i] = "/"}

C11_ExtensionOfSubtype ==
    extRes # <<>> =>
        /\ extArg = <<"image", "/", "png">> => extRes = <<".", "png">>
        /\ extArg = <<"video", "/", "mp4">> => extRes = <<".", "mp4">>
        /\ \A i \in Slashes(extArg) :
              Slashes(extArg) = {i} =>
                  extRes = <<".">> \o SubSeq(extArg, i + 1, Len(extArg))
        /\ Slashes(extArg) = {} => extRes = <<".bin">>

C11_Witness == extArg = <<"video", "/", "mp4">> /\ extRes = <<".", "mp4">>

\* C12 (as claimed): every string that does not split on "/" into exactly
\* two non-empty parts gets ".bin".
TwoNonEmptyParts(str) ==
    \E i \in Slashes(str) : Slashes(str) = {i} /\ 1 < i /\ i < Len(str)

C12_NotTwoNonEmptyPartsIsBin ==
    extRes # <<>> /\ ~TwoNonEmptyParts(extArg) => extRes = <<".bin">>

\* C12 (amended): every string that does not split on "/" into exactly
\* two parts (no "/", the empty string, two or more "/") gets ".bin"; an
\* empty type such as "/png" gets ".png" and an empty subtype such as
\* "image/" gets ".".
C12_NotTwoPartsIsBin ==
    extRes # <<>> =>
        /\ Cardinality(Slashes(extArg)) # 1 => extRes = <<".bin">>
        /\ extArg = <<"/", "png">> => extRes = <<".", "png">>
        /\ extArg = <<"image", "/">> => extRes = <<".">>

C12_Witness == extArg = <<"image", "/", "/">> /\ extRes = <<".bin">>

\* C13: the deterministic getAssetPath gives the identifier's string form
\* followed by the resolved extension, the same key for the same
\* identifier and media type, and different keys for different
\* identifiers with the same media type.
C13_KeyOfIdentifier ==
    \A i, j \in 1..Len(keyRes) :
        /\ keyRes[i] = <<keyArgs[i].videoID>> \o mediaTypeToExt(keyArgs[i].mediaType)
        /\ keyArgs[i] = keyArgs[j] => keyRes[i] = keyRes[j]
        /\ keyArgs[i].videoID # keyArgs[j].videoID
           /\ keyArgs[i].mediaType = keyArgs[j].mediaType => keyRes[i] # keyRes[j]

C13_Witness ==
    /\ Len(keyRes) = 2
    /\ keyArgs[1].videoID # keyArgs[2].videoID
    /\ keyArgs[1].mediaType = <<"image", "/", "png">>
    /\ keyArgs[2].mediaType = <<"image", "/", "png">>
    /\ keyRes[1] # keyRes[2]

\* C14: a run of handlerUploadVideo makes at most one PutObject call; a
\* run that ends with 200 made exactly one; the call that succeeds stores,
\* under the run's key and nowhere else, the whole uploaded content with
\* the content type video/mp4; a run that failed before the call leaves
\* no object of its own in the store.
PutsOf(r) == {k \in DOMAIN s3 : s3[k].body.run = rq[r].run}

C14_Final ==
    \A r \in Reqs :
        Video(r) =>
            /\ Calls(rq[r], "PutObject") <= 1
            /\ Done(r) /\ rq[r].status = 200 => Calls(rq[r], "PutObject") = 1
            /\ Done(r) /\ Calls(rq[r], "PutObject") = 0 => PutsOf(r) = {}

C14_Put ==
    \A r \in Reqs :
        Video(r) /\ rq[r].pc = "put" /\ rq'[r].pc = "update" =>
            /\ DOMAIN s3' = DOMAIN s3 \cup {rq[r].key}
            /\ \A k \in DOMAIN s3 \ {rq[r].key} : s3'[k] = s3[k]
            /\ s3'[rq[r].key] = [body |-> [run |-> rq[r].run, size |-> rq[r].size,
                                               faststart |-> TRUE],
                                 contentType |-> <<"video", "/", "mp4">>]

C14_OnePutPerRun == []C14_Final /\ [][C14_Put]_vars

C14_Witness ==
    \E r \in Reqs :
        /\ Done(r) /\ Video(r) /\ rq[r].status = 200
        /\ Calls(rq[r], "PutObject") = 1
        /\ s3[rq[r].key].body = [run |-> rq[r].run, size |-> 1073741824, faststart |-> TRUE]

\* C15: no two requests in flight are ever both at a statement that
\* accesses the same in-process variable (the videoThumbnails map
\* included), and no run ends by the runtime's detection of such access.
C15_NoSharedInProcessState ==
    \A r1, r2 \in Reqs :
        /\ r1 # r2 => ~(AtMapAccess(r1) /\ AtMapAccess(r2))
        /\ rq[r1].msg # "fatal error: concurrent map writes"

\* C16: when the request is cancelled while the remux subprocess runs,
\* the subprocess is terminated (it does not exit with success), its
\* output is gone from the disk once the handler has returned, and no
\* put and no update is made by that run.
C16_CancelStopsRemux ==
    \A r \in Reqs :
        rq[r].cancelled /\ rq[r].ffmpeg # "" =>
            /\ rq[r].ffmpeg \in {"exit", "exitPartial"}
            /\ Done(r) => ProcessedPath(r) \notin DOMAIN disk
            /\ Calls(rq[r], "PutObject") = 0
            /\ Calls(rq[r], "UpdateVideo") = 0

\* C17: when rand.Read fails in getAssetPath the handler gets no key and
\* no error, the run makes no put and no update, and the process is gone:
\* no other request is in flight any more and none is accepted later.
Panicked(r) == rq[r].msg = "panic: failed to generate random bytes"

C17_EntropyFailureIsFatal ==
    \A r \in Reqs :
        Panicked(r) =>
            /\ rq[r].key = <<>>
            /\ Calls(rq[r], "PutObject") = 0
            /\ Calls(rq[r], "UpdateVideo") = 0
            /\ \A q \in Reqs : Free(q)

\* C18: the step that ends an upload with success changes one URL field
\* of the record in the metadata store (the video URL for a video upload,
\* the thumbnail URL for a thumbnail upload) and leaves the other fields
\* as the store holds them.
C18_Step ==
    \A r \in Reqs :
        ~Done(r) /\ rq'[r].pc = "done" /\ rq'[r].status = 200 =>
            LET id == rq[r].videoID
            IN  /\ db'[id].UserID = db[id].UserID
                /\ Video(r) => db'[id].ThumbnailURL = db[id].ThumbnailURL
                /\ ~Video(r) => db'[id].VideoURL = db[id].VideoURL

C18_OneFieldPerUpload == [][C18_Step]_vars

\* C19: a thumbnail upload that ends with an owner mismatch, a failed
\* lookup, a failed copy or a failed update leaves what was stored under
\* the video's id before it (the file on disk or the map entry) as it
\* was.  Stated for requests that no other request overlaps.
FailedThumbnail(r) ==
    /\ Done(r) /\ ~Video(r)
    /\ rq[r].msg \in {"Not authorized to update this video", "Couldn't find video",
                      "Error saving file", "Couldn't update video"}
HadAsset(r) == DOMAIN rq[r].saved.files # {} \/ DOMAIN rq[r].saved.thumbs # {}

C19_FailedThumbnailKeepsAsset ==
    rq["r2"].pc = "idle" /\ FailedThumbnail("r1") /\ HadAsset("r1") =>
        AssetsOf(disk, videoThumbnails, rq["r1"].videoID) = rq["r1"].saved

\* C20: in every reachable state a video URL on a record is the URL of a
\* key present in the object store, and a record with a thumbnail URL has
\* a stored thumbnail: the file the URL names, or the map entry of the id.
C20_StoredURLHasAsset ==
    \A id \in DOMAIN db :
        /\ db[id].VideoURL # Nil =>
              \E k \in DOMAIN s3 : db[id].VideoURL = <<"https://", s3CfDistribution, "/">> \o k
        /\ db[id].ThumbnailURL # Nil /\ thumbVariant = "thumbMap" =>
              id \in DOMAIN videoThumbnails
        /\ db[id].ThumbnailURL # Nil /\ thumbVariant = "thumbDisk" =>
              \E q \in DOMAIN disk :
                 /\ Len(q) >= 3 /\ q[1] = assetsRoot
                 /\ db[id].ThumbnailURL =
                       <<"http://localhost:", port, "/assets/">> \o SubSeq(q, 3, Len(q))

\* C21: when cfg.db.UpdateVideo fails in handlerUploadVideo after the put
\* succeeded, the run ends with 500 "Couldn't update video", the step
\* leaves the object store as it is (the object stays under the key, no
\* further call is made to the store) and the record as it is.
PersistFailed(rec) ==
    rec.pc = "done" /\ rec.handler = "video" /\ rec.msg = "Couldn't update video"

C21_Final ==
    \A r \in Reqs :
        PersistFailed(rq[r]) =>
            /\ rq[r].status = 500
            /\ Calls(rq[r], "PutObject") = 1
            /\ rq[r].trail[Len(rq[r].trail)] = "UpdateVideo"
            /\ rq[r].key \in DOMAIN s3

C21_Step ==
    \A r \in Reqs :
        ~Done(r) /\ PersistFailed(rq'[r]) =>
            /\ s3' = s3
            /\ rq[r].key \in DOMAIN s3
            /\ db' = db

C21_PersistFailureOrphans == []C21_Final /\ [][C21_Step]_vars

C21_Witness ==
    \E r \in Reqs :
        /\ PersistFailed(rq[r])
        /\ rq[r].key \in DOMAIN s3
        /\ db[rq[r].videoID].VideoURL = Nil

\* The five collaborator calls of a video run and the response that answers
\* the failure of each.
VideoCollaborators == {"GetVideo", "ffprobe", "ffmpeg", "PutObject", "UpdateVideo"}
FailureMessage(call) ==
    CASE call = "GetVideo" -> "Couldn't find video"
      [] call = "ffprobe" -> "Error determining aspect ratio"
      [] call = "ffmpeg" -> "Error processing video"
      [] call = "PutObject" -> "Error uploading file to S3"
      [] call = "UpdateVideo" -> "Couldn't update video"

\* C22: a video run calls each of the metadata fetch, the probe, the remux,
\* the put and the record update at most once; a run answered with the
\* failure of one of them made that call last, and a run that has ended
\* makes no further call.
C22_Final ==
    \A r \in Reqs : Video(r) =>
        /\ \A c \in VideoCollaborators : Calls(rq[r], c) <= 1
        /\ \A c \in VideoCollaborators :
              Done(r) /\ rq[r].msg = FailureMessage(c) =>
                  /\ rq[r].status = 500
                  /\ rq[r].trail[Len(rq[r].trail)] = c
C22_Step ==
    \A r \in Reqs :
        Done(r) /\ Video(r) /\ rq'[r].run = rq[r].run => rq'[r].trail = rq[r].trail
C22_NoRetryNoLaterPhase == []C22_Final /\ [][C22_Step]_vars
C22_Witness ==
    \E r \in Reqs :
        /\ Done(r) /\ Video(r) /\ rq[r].msg = FailureMessage("ffprobe")
        /\ Calls(rq[r], "ffprobe") = 1 /\ Calls(rq[r], "ffmpeg") = 0

\* The calls of a video run that passes every phase, in the order of the
\* handler: authenticate, authorize, stage, inspect, transcode, publish,
\* persist.
PhaseCalls ==
    <<"GetBearerToken", "ValidateJWT", "GetVideo", "FormFile", "CreateTemp", "Copy",
      "Seek", "ffprobe", "rand.Read", "ffmpeg", "Open", "PutObject", "UpdateVideo">>
IsPrefix(s, t) == Len(s) <= Len(t) /\ s = SubSeq(t, 1, Len(s))

\* C23: the calls of a video run are made in the order of the phases, none
\* skipped; staging begins only for the authenticated owner of the record,
\* publishing only after a remux that succeeded, and the record update only
\* after a put that stored the object.
C23_PhasesInOrder ==
    \A r \in Reqs : Video(r) =>
        /\ IsPrefix(rq[r].trail, PhaseCalls)
        /\ Calls(rq[r], "FormFile") > 0 =>
              /\ rq[r].userID \in Users
              /\ rq[r].video # NoVideo /\ rq[r].video.UserID = rq[r].userID
        /\ rq[r].pc \in {"open", "put", "update"} \/ Calls(rq[r], "Open") > 0 =>
              /\ rq[r].ffmpeg = "ok"
              /\ Calls(rq[r], "ffmpeg") = 1
        /\ rq[r].pc = "update" \/ Calls(rq[r], "UpdateVideo") > 0 =>
              /\ Calls(rq[r], "PutObject") = 1
              /\ rq[r].key \in DOMAIN s3
C23_Witness ==
    \E r \in Reqs :
        Video(r) /\ Done(r) /\ rq[r].status = 200 /\ rq[r].trail = PhaseCalls

\* C24: when a video run calls the put, the remux output of the run exists
\* with a size above zero, and the object a successful put stores is that
\* file's content, not the staged upload's; once the handler has returned
\* after a put, failed or not, the remux output is gone.
C24_Final ==
    \A r \in Reqs :
        Done(r) /\ Video(r) /\ Calls(rq[r], "PutObject") = 1 =>
            ProcessedPath(r) \notin DOMAIN disk
C24_Put ==
    \A r \in Reqs :
        Video(r) /\ rq[r].pc = "put" /\ rq'[r].pc # "put" =>
            /\ ProcessedPath(r) \in DOMAIN disk
            /\ disk[ProcessedPath(r)].size > 0
            /\ StagedPath(r) \in DOMAIN disk
            /\ rq'[r].wroteStore =>
                  /\ s3'[rq[r].key].body = disk[ProcessedPath(r)]
                  /\ s3'[rq[r].key].body # disk[StagedPath(r)]
C24_ProcessedFilePublished == []C24_Final /\ [][C24_Put]_vars
\* A run whose put failed has returned and its remux output is removed.
C24_Witness ==
    \E r \in Reqs :
        /\ Done(r) /\ Video(r) /\ rq[r].msg = "Error uploading file to S3"
        /\ ProcessedPath(r) \notin DOMAIN disk

\* The run of slot r read a file part from the form.
GotPart(r) == Calls(rq[r], "FormFile") = 1 /\ rq[r].part

\* C25: a video run whose file part has no content type, or one that is not
\* video/mp4, has ended with status 400, has created no temporary file and
\* has called neither the probe, the remux nor the put; a thumbnail run
\* whose file part has no content type has ended with status 400 and has
\* written no asset file and no map entry.
C25_BadTypeRejectedBeforeStaging ==
    \A r \in Reqs :
        /\ Video(r) /\ GotPart(r) /\ rq[r].ctype # VideoMP4 =>
              /\ Done(r) /\ rq[r].status = 400
              /\ \A c \in {"CreateTemp", "ffprobe", "ffmpeg", "PutObject"} :
                    Calls(rq[r], c) = 0
              /\ rq[r].tempFile = Nil
              /\ StagedPath(r) \notin DOMAIN disk
              /\ PutsOf(r) = {}
        /\ ~Video(r) /\ GotPart(r) /\ rq[r].ctype = <<>> =>
              /\ Done(r) /\ rq[r].status = 400
              /\ \A c \in {"Create", "ReadAll", "videoThumbnails", "UpdateVideo"} :
                    Calls(rq[r], c) = 0
              /\ rq[r].assetPath = Nil
              /\ ~rq[r].wroteStore
C25_Witness ==
    /\ \E r \in Reqs : Video(r) /\ GotPart(r) /\ rq[r].ctype = ImagePNG /\ Done(r)
    /\ \E r \in Reqs : ~Video(r) /\ GotPart(r) /\ rq[r].ctype = <<>> /\ Done(r)

\* C26: a video run whose probe exits nonzero, prints no JSON or prints no
\* stream has ended with status 500 and has called neither the remux, the
\* put nor the record update; a run whose probe printed streams takes the
\* directory of its key from the first of them, whatever follows it.
C26_ProbeFailureEndsRun ==
    \A r \in Reqs : Video(r) /\ Calls(rq[r], "ffprobe") = 1 =>
        /\ rq[r].streams = <<>> =>
              /\ rq[r].err \in {"exit", "json", "nostreams"}
              /\ Done(r) /\ rq[r].status = 500
              /\ rq[r].msg = "Error determining aspect ratio"
              /\ \A c \in {"rand.Read", "ffmpeg", "Open", "PutObject", "UpdateVideo"} :
                    Calls(rq[r], c) = 0
              /\ rq[r].key = <<>> /\ PutsOf(r) = {}
        /\ rq[r].streams # <<>> =>
              /\ rq[r].geom = rq[r].streams[1]
              /\ rq[r].streams[1] = <<1920, 1080>> => rq[r].directory = <<"landscape">>
              /\ rq[r].streams[1] = <<1080, 1920>> => rq[r].directory = <<"portrait">>
              /\ rq[r].streams[1] = <<1000, 1000>> => rq[r].directory = <<"other">>
C26_Witness ==
    /\ \E r \in Reqs : /\ Video(r) /\ Done(r) /\ rq[r].err = "nostreams"
                         /\ rq[r].status = 500
    /\ \E r \in Reqs : /\ Video(r) /\ Done(r) /\ rq[r].status = 200
                         /\ rq[r].streams = << <<1080, 1920>>, <<1920, 1080>> >>
                         /\ rq[r].key[1] = "portrait"

\* width x height is exactly 16:9, both positive.
True16by9(w, h) == w > 0 /\ h > 0 /\ 9 * w = 16 * h

\* C27 as stated: some geometry that is exactly 16:9 is classified "other"
\* by getVideoAspectRatio.
C27_TrueRatioMisclassified ==
    \E w \in RatioDims, h \in RatioDims :
        True16by9(w, h) /\ getVideoAspectRatio(w, h) = "other"

\* C27: every geometry that is exactly 16:9 is classified "16:9" by
\* getVideoAspectRatio (16 * height is then a multiple of 9 and the
\* truncating division loses nothing).
C27_TrueRatioClassified ==
    aspectRatio # "" /\ True16by9(width, height) => aspectRatio = "16:9"
C27_Witness ==
    aspectRatio = "16:9" /\ width = 1280 /\ height = 720

\* C28: a video run whose probe reports width 0 and height 0 for the first
\* stream is classified "other", and its key lies under other.
C28_ZeroGeometryIsOther ==
    \A r \in Reqs :
        Video(r) /\ rq[r].geom = <<0, 0>> =>
            /\ rq[r].directory = <<"other">>
            /\ rq[r].key # <<>> => rq[r].key[1] = "other"

\* C29: a thumbnail run whose body exceeds the ceiling (here the largest the
\* program configures, 1 << 30 bytes) has ended with status 400 once the
\* form is read, and has written no asset file and no map entry.
C29_OversizedThumbnailRejected ==
    \A r \in Reqs :
        ~Video(r) /\ Calls(rq[r], "FormFile") = 1 /\ rq[r].size > uploadLimit =>
            /\ Done(r) /\ rq[r].status = 400
            /\ Calls(rq[r], "Create") = 0
            /\ Calls(rq[r], "videoThumbnails") = 0

\* C30: the key of a video run, once derived, is <directory>/<id>.mp4 with
\* one of the random identifiers, the directory being landscape when
\* getVideoAspectRatio returns "16:9" for the first stream the probe of the
\* same run reported, portrait when it returns "9:16" and other otherwise;
\* every object in the store lies under one of the three directories.
C30_KeyUnderDirectory ==
    /\ \A r \in Reqs :
          Video(r) /\ rq[r].key # <<>> =>
              LET ratio == getVideoAspectRatio(rq[r].streams[1][1], rq[r].streams[1][2])
                  dir == IF ratio = "16:9" THEN "landscape"
                         ELSE IF ratio = "9:16" THEN "portrait" ELSE "other"
              IN  /\ Calls(rq[r], "ffprobe") = 1
                  /\ \E id \in RandIDs : rq[r].key = <<dir, "/", id, ".", "mp4">>
    /\ \A k \in DOMAIN s3 :
          Len(k) = 5 /\ k[1] \in {"landscape", "portrait", "other"}
C30_Witness ==
    \E r \in Reqs :
        /\ Video(r) /\ Done(r) /\ rq[r].status = 200
        /\ rq[r].streams = << <<1000, 1000>> >>
        /\ rq[r].key[1] = "other" /\ rq[r].key \in DOMAIN s3

\* The positions of the deferred call op on path in the calls a returned
\* run executed.
Unwound(r, op, path) ==
    {i \in 1..Len(rq[r].unwound) :
        rq[r].unwound[i].op = op /\ rq[r].unwound[i].path = path}
\* Every handle on path was closed, and closed before path was removed.
ClosedBeforeRemoved(r, path) ==
    /\ Cardinality(Unwound(r, "close", path)) = 1
    /\ Cardinality(Unwound(r, "remove", path)) = 1
    /\ \A i \in Unwound(r, "close", path), j \in Unwound(r, "remove", path) : i < j
\* The run opened its remux output for reading.
OpenedProcessed(r) ==
    Calls(rq[r], "Open") = 1 /\ rq[r].msg # "Could not open processed file"

\* C31: a video run that created its staged file and has returned closed
\* the staged file's handle before it removed the file, and, when it had
\* opened the remux output, closed that handle before it removed that file;
\* no deferred Close follows the removal of its path, and both files are
\* gone from disk.
C31_ClosedBeforeRemoved ==
    \A r \in Reqs :
        Video(r) /\ Done(r) /\ rq[r].tempFile # Nil =>
            /\ ClosedBeforeRemoved(r, StagedPath(r))
            /\ StagedPath(r) \notin DOMAIN disk
            /\ OpenedProcessed(r) =>
                  /\ ClosedBeforeRemoved(r, ProcessedPath(r))
                  /\ ProcessedPath(r) \notin DOMAIN disk
            /\ \A i, j \in 1..Len(rq[r].unwound) :
                  /\ rq[r].unwound[i].op = "remove"
                  /\ rq[r].unwound[j].op = "close"
                  /\ rq[r].unwound[i].path = rq[r].unwound[j].path
                  => j < i
C31_Witness ==
    \E r \in Reqs :
        /\ Video(r) /\ Done(r) /\ OpenedProcessed(r)
        /\ rq[r].unwound =
              << [op |-> "close", path |-> ProcessedPath(r)],
                 [op |-> "remove", path |-> ProcessedPath(r)],
                 [op |-> "close", path |-> StagedPath(r)],
                 [op |-> "remove", path |-> StagedPath(r)],
                 [op |-> "close", path |-> <<"file">>] >>

====
